---- MODULE Spec2Model ----
(***************************************************************************)
(* A model of the portfolio tracker's computation engine (src/notion.py):  *)
(* the Notion client (retrieve_db, query_db), the transaction normalizer   *)
(* (get_transactions_df), the position builder (get_his_positions_df) and  *)
(* the performance calculator (get_performance_df).                        *)
(*                                                                         *)
(* Conventions.  A number cell is a tuple: <<n>> holds n, <<>> is NaN.     *)
(* A text cell is a string, None for a missing one.  Amounts are integers  *)
(* (floating-point rounding is not modelled).  A transaction table is a    *)
(* sequence of rows; each row keeps its index label idx (its position in   *)
(* the query result), which sort_values carries along.  A date-indexed     *)
(* series is a function from days to number cells.  Days are numbered      *)
(* 1..Today.                                                               *)
(***************************************************************************)
EXTENDS Integers, Sequences, FiniteSets, TLC

VARIABLES
    ledger,     \* the rows stored in the remote Notion database
    market,     \* what the two market-data providers hold
    pc,         \* how far the session has come: new, tran, pos, perf, failed
    http,       \* the last direct client call: requests sent, status, outcome
    products,   \* self.products of the NotionAPI instance (<<>> before it is set)
    df_tran,    \* the transaction table the caller holds
    df_pos,     \* the value get_his_positions_df returned
    df_perf,    \* the value get_performance_df returned
    format_arg, \* the format_out of the last get_his_positions_df call ("" before)
    calls,      \* how many times get_his_positions_df was called with df_tran
    err         \* the exception the failed call raised ("" when none)

vars == <<ledger, market, pc, http, products, df_tran, df_pos, df_perf, format_arg,
          calls, err>>

(***************************************************************************)
(* Bounds of the model.                                                    *)
(***************************************************************************)
Today == 3          \* date.today(); the ledger's dates are days 1..Today
MaxRows == 2        \* rows in the remote ledger
MaxRuns == 2        \* text runs in one rich-text cell
MaxCalls == 2       \* calls of get_his_positions_df with one table

Days == 1..Today

(***************************************************************************)
(* Cells.                                                                  *)
(***************************************************************************)
NaN == <<>>
None == "None"
Num(n) == <<n>>
IsNa(x) == x = NaN
Val(x) == x[1]

AbsInt(n) == IF n < 0 THEN -n ELSE n
AbsCell(x) == IF IsNa(x) THEN NaN ELSE Num(AbsInt(Val(x)))
MulCell(x, y) == IF IsNa(x) \/ IsNa(y) THEN NaN ELSE Num(Val(x) * Val(y))
\* value of a cell in a sum that skips NaN (pandas skipna=True)
Skip(x) == IF IsNa(x) THEN 0 ELSE Val(x)

\* A sequence, or a function, written out element by element (the same
\* value; it keeps the model checker from evaluating it again at each use).
Seq_(s) == s \o <<>>
Fcn_(f) == f @@ <<>>

(***************************************************************************)
(* Program constants.                                                      *)
(***************************************************************************)
HTTP_OK == 200
MARKETS_DICT == [b \in {"EAM", "XET"} |-> IF b = "EAM" THEN "AS" ELSE "DE"]
RichTextCols == {"Producto", "ISIN", "Bolsa", "Centro", "Simbolo", "Descripcion"}
ProductCols == {"Producto", "ISIN", "Bolsa", "Centro", "Simbolo"}
Formats == {"wide", "long", "mixed"}

(***************************************************************************)
(* The remote service: what a request can be answered with.                *)
(***************************************************************************)
Statuses == {200, 201, 404, 500}
Schema == RichTextCols \cup {"Fecha", "Tipo", "Unidades", "Valor", "Tasa"}

(***************************************************************************)
(* Remote Ledger Client.                                                   *)
(***************************************************************************)
\* the status test of both calls
StatusOkAny2xx(status) == status \div 100 = 2
StatusOk(status) == status = HTTP_OK

\* One call: one request is sent; its answer has the given status and body.
\* The outcome is the JSON body, or ConnectionError.
Respond(op, status, body) ==
    [op |-> op, sent |-> 1, status |-> status,
     exc |-> IF StatusOk(status) THEN "" ELSE "ConnectionError",
     json |-> IF StatusOk(status) THEN <<body>> ELSE <<>>]

retrieve_db(status) == Respond("retrieve_db", status, Schema)
query_db(status) == Respond("query_db", status, [results |-> ledger])

(***************************************************************************)
(* Transaction Normalizer.                                                 *)
(***************************************************************************)
Raised(e) == [exc |-> e, val |-> None]
Returned(v) == [exc |-> "", val |-> v]

ExtractFirstRun(rich_text_object) ==
    IF Len(rich_text_object) = 0
    THEN Returned(None)
    ELSE Returned(rich_text_object[1].plain_text)

_extract_plain_text(rich_text_object) ==
    IF Len(rich_text_object) = 0
    THEN Returned(None)
    ELSE IF Len(rich_text_object) = 1
         THEN Returned(rich_text_object[1].plain_text)
         ELSE Raised("ValueError: More than 1 element in list!")

\* datetime.strptime(start, "%Y-%m-%d").date(): a string with a time part
\* does not match the format; the date it yields carries no timezone.
StrptimeDate(start) ==
    IF start.time
    THEN Raised("ValueError: unconverted data remains")
    ELSE [exc |-> "", val |-> [day |-> start.day]]

\* pd.to_datetime(df["Fecha"], format="%Y-%m-%d"): a datetime64 column,
\* timezone-naive.
ToDatetime(d) == [day |-> d.day, tz |-> "naive"]

\* the record built from one entry of the results (lines 157-197)
TextOf(entry) == [c \in RichTextCols |-> _extract_plain_text(entry[c])]

ParseEntry(entry, i) ==
    LET text == TextOf(entry)
        date == StrptimeDate(entry.Fecha)
        bad  == {c \in RichTextCols : text[c].exc # ""}
    IN  IF bad # {}
        THEN Raised(text[CHOOSE c \in bad : TRUE].exc)
        ELSE IF date.exc # ""
        THEN Raised(date.exc)
        ELSE Returned([idx |-> i,
                       Fecha |-> date.val,
                       Tipo |-> entry.Tipo,
                       Producto |-> text["Producto"].val,
                       ISIN |-> text["ISIN"].val,
                       Bolsa |-> text["Bolsa"].val,
                       Centro |-> text["Centro"].val,
                       Simbolo |-> text["Simbolo"].val,
                       Descripcion |-> text["Descripcion"].val,
                       Unidades |-> entry.Unidades,
                       Valor |-> entry.Valor,
                       Tasa |-> entry.Tasa])

\* pd.DataFrame.from_records(records), or the first exception of the loop
FromRecords(results) ==
    LET parsed == [i \in 1..Len(results) |-> ParseEntry(results[i], i)]
        bad    == {i \in 1..Len(results) : parsed[i].exc # ""}
    IN  IF bad # {}
        THEN Raised(parsed[CHOOSE i \in bad : \A j \in bad : i <= j].exc)
        ELSE Returned([i \in 1..Len(results) |-> parsed[i].val])

\* line 204: df["Fecha"] = pd.to_datetime(df["Fecha"], format="%Y-%m-%d")
WithDatetime(df) ==
    [i \in 1..Len(df) |-> [df[i] EXCEPT !.Fecha = ToDatetime(df[i].Fecha)]]

\* df.sort_values("Fecha"): the default sort is not stable, so rows of one
\* date come out in any order; every outcome is a permutation of the rows
\* with the dates ascending.
RowOrders(n) ==
    {p \in [1..n -> 1..n] : \A i, j \in 1..n : i # j => p[i] # p[j]}

IsAscending(df) ==
    \A i \in 1..(Len(df) - 1) : df[i].Fecha.day <= df[i + 1].Fecha.day

SortValuesFecha(df) ==
    {s \in {[i \in 1..Len(df) |-> df[p[i]]] : p \in RowOrders(Len(df))} :
        IsAscending(s)}

\* --- Series helpers.  A labelled series is a sequence of [idx, val]; a
\* column aligned with a table is a sequence of cells.
RECURSIVE SumTo(_, _)
SumTo(cells, i) == IF i = 0 THEN 0 ELSE SumTo(cells, i - 1) + Skip(cells[i])

\* Series.cumsum(): NaN stays NaN and is skipped by the running sum
Cumsum(cells) ==
    LET c == Seq_(cells)
    IN  Seq_([i \in 1..Len(c) |-> IF IsNa(c[i]) THEN NaN ELSE Num(SumTo(c, i))])

\* fillna(method="ffill")
NoFfill(cells) == cells

Ffill(cells) ==
    LET c == Seq_(cells)
        f[i \in 0..Len(c)] ==
            IF i = 0 THEN NaN
            ELSE IF IsNa(c[i]) THEN f[i - 1] ELSE c[i]
    IN  Seq_([i \in 1..Len(c) |-> f[i]])

Fillna(cells, v) ==
    LET c == Seq_(cells)
    IN  Seq_([i \in 1..Len(c) |-> IF IsNa(c[i]) THEN v ELSE c[i]])

AbsSeries(cells) ==
    LET c == Seq_(cells)
    IN  Seq_([i \in 1..Len(c) |-> AbsCell(c[i])])

\* df.loc[df["Tipo"] == tipo, col]: the labelled cells of the rows selected
LocTipo(df, tipo, col) ==
    LET IsTipo(r) == r.Tipo = tipo
        sel == SelectSeq(df, IsTipo)
    IN  Seq_([i \in 1..Len(sel) |-> [idx |-> sel[i].idx, val |-> sel[i][col]]])

CumsumLabelled(s) ==
    LET c == Cumsum([i \in 1..Len(s) |-> s[i].val])
    IN  Seq_([i \in 1..Len(s) |-> [idx |-> s[i].idx, val |-> c[i]]])

\* Series.reindex(df.index): the cell of each label of df, NaN where the
\* series has none
ReindexTo(s, df) ==
    Seq_([i \in 1..Len(df) |->
            IF \E j \in 1..Len(s) : s[j].idx = df[i].idx
            THEN s[CHOOSE j \in 1..Len(s) : s[j].idx = df[i].idx].val
            ELSE NaN])

\* abs(df.loc[Tipo == tipo, col].cumsum().reindex(df.index)
\*        .fillna(method="ffill").fillna(0.0))
CumulativeOfTipo(df, tipo, col) ==
    AbsSeries(Fillna(Ffill(ReindexTo(CumsumLabelled(LocTipo(df, tipo, col)), df)),
                     Num(0)))

\* abs(df["Tasa"].cumsum().fillna(method="ffill").fillna(0.0))
CumulativeFees(df) ==
    AbsSeries(Fillna(Ffill(Cumsum([i \in 1..Len(df) |-> df[i].Tasa])), Num(0)))

\* abs(df["Unidades"] * df["Valor"])
GrossTotal(r) == AbsCell(MulCell(r.Unidades, r.Valor))

\* df[[a, b, c]].sum(axis=1) - df[[x, y, z]].sum(axis=1)
EfectivoAllAdded(ingresado, dividendos, vendido, retirado, comprado, costes) ==
    Num((Skip(ingresado) + Skip(dividendos) + Skip(vendido))
        + (Skip(retirado) + Skip(comprado) + Skip(costes)))

Efectivo(ingresado, dividendos, vendido, retirado, comprado, costes) ==
    Num((Skip(ingresado) + Skip(dividendos) + Skip(vendido))
        - (Skip(retirado) + Skip(comprado) + Skip(costes)))

\* lines 207-221: the table with its derived columns
WithCumulativeColumns(df) ==
    LET ing == CumulativeOfTipo(df, "Ingreso", "Valor")
        ret == CumulativeOfTipo(df, "Retirada", "Valor")
        dft == Seq_([i \in 1..Len(df) |-> [Total |-> GrossTotal(df[i])] @@ df[i]])
        com == CumulativeOfTipo(dft, "Compra", "Total")
        ven == CumulativeOfTipo(dft, "Venta", "Total")
        div == CumulativeOfTipo(df, "Dividendo", "Valor")
        cos == CumulativeFees(df)
    IN  Seq_([i \in 1..Len(df) |->
            [Ingresado |-> ing[i], Retirado |-> ret[i], Comprado |-> com[i],
             Vendido |-> ven[i], DividendosAcumulados |-> div[i],
             CostesAcumulados |-> cos[i],
             Efectivo |-> Efectivo(ing[i], div[i], ven[i], ret[i], com[i], cos[i])]
            @@ dft[i]])

\* df[[...]].drop_duplicates().dropna(): the distinct product rows, first
\* occurrence kept, rows with a missing identifier dropped
ProductRow(r) == [c \in ProductCols |-> r[c]]

DropDuplicates(rows) ==
    LET ix == [i \in 1..Len(rows) |-> [pos |-> i, row |-> rows[i]]]
        IsFirst(e) == \A j \in 1..(e.pos - 1) : rows[j] # e.row
        kept == SelectSeq(ix, IsFirst)
    IN  [k \in 1..Len(kept) |-> kept[k].row]

Dropna(rows) ==
    LET Complete(r) == \A c \in DOMAIN r : r[c] # None
    IN  SelectSeq(rows, Complete)

ProductsOf(df) == Dropna(DropDuplicates([i \in 1..Len(df) |-> ProductRow(df[i])]))

(***************************************************************************)
(* Position Builder.                                                       *)
(***************************************************************************)
MinDay(df) == CHOOSE d \in {df[i].Fecha.day : i \in 1..Len(df)} :
                 \A i \in 1..Len(df) : d <= df[i].Fecha.day

\* pd.date_range(df_tran["Fecha"].min(), date.today())
DateRange(df) == MinDay(df)..Today

\* lines 267-268: df_tran.loc[(Tipo == "Venta") & (Unidades > 0), "Unidades"] *= -1
FlipPositive(r) ==
    IF ~IsNa(r.Unidades) /\ Val(r.Unidades) > 0
    THEN [r EXCEPT !.Unidades = Num(-Val(r.Unidades))]
    ELSE r

FlipEverySell(r) ==
    IF r.Tipo = "Venta" /\ ~IsNa(r.Unidades)
    THEN [r EXCEPT !.Unidades = Num(-Val(r.Unidades))]
    ELSE r

FlipSell(r) ==
    IF r.Tipo = "Venta" /\ ~IsNa(r.Unidades) /\ Val(r.Unidades) > 0
    THEN [r EXCEPT !.Unidades = Num(-Val(r.Unidades))]
    ELSE r

SignNotCorrected(df) == df

SignCorrected(df) == Seq_([i \in 1..Len(df) |-> FlipSell(df[i])])

\* df_tran.loc[df_tran["Tipo"].isin(["Compra", "Venta"])]
IsTrade(r) == r.Tipo \in {"Compra", "Venta"}
TradesOf(df) == SelectSeq(df, IsTrade)

\* pivot raises when two rows share the index and the column
HasDuplicateEntries(trades) ==
    \E i, j \in 1..Len(trades) :
        /\ i # j
        /\ trades[i].Fecha.day = trades[j].Fecha.day
        /\ trades[i].Producto = trades[j].Producto

\* .pivot(index="Fecha", columns="Producto", values="Unidades").sort_index():
\* a column per product over the dates that have a trade
Pivot(trades) ==
    LET dates == {trades[i].Fecha.day : i \in 1..Len(trades)}
        prods == {trades[i].Producto : i \in 1..Len(trades)}
        Cell(d, p) ==
            IF \E i \in 1..Len(trades) :
                    trades[i].Fecha.day = d /\ trades[i].Producto = p
            THEN trades[CHOOSE i \in 1..Len(trades) :
                    trades[i].Fecha.day = d /\ trades[i].Producto = p].Unidades
            ELSE NaN
    IN  Fcn_([p \in prods |-> Fcn_([d \in dates |-> Cell(d, p)])])

\* --- Date-indexed series: functions from a set of days to cells.
RECURSIVE SumDays(_, _)
SumDays(s, days) ==
    IF days = {} THEN 0
    ELSE LET d == CHOOSE x \in days : TRUE
         IN  Skip(s[d]) + SumDays(s, days \ {d})

CumsumDays(s) ==
    Fcn_([d \in DOMAIN s |->
            IF IsNa(s[d]) THEN NaN
            ELSE Num(SumDays(s, {e \in DOMAIN s : e <= d}))])

ReindexDays(s, index) ==
    Fcn_([d \in index |-> IF d \in DOMAIN s THEN s[d] ELSE NaN])

FfillDays(s) ==
    LET f[d \in DOMAIN s] ==
            IF ~IsNa(s[d]) THEN s[d]
            ELSE IF (d - 1) \in DOMAIN s THEN f[d - 1] ELSE NaN
    IN  Fcn_([d \in DOMAIN s |-> f[d]])

\* lines 272-274: the open quantity of each product on each calendar day
QuantityNoFfill(trades, date_idx) ==
    LET pv == Pivot(trades)
    IN  Fcn_([p \in DOMAIN pv |-> ReindexDays(CumsumDays(pv[p]), date_idx)])

Quantity(trades, date_idx) ==
    LET pv == Pivot(trades)
    IN  Fcn_([p \in DOMAIN pv |-> FfillDays(ReindexDays(CumsumDays(pv[p]), date_idx))])

\* lines 277-278: Simbolo + "." + Bolsa.replace(markets_dict)
ReplaceMarket(bolsa) ==
    IF bolsa \in DOMAIN MARKETS_DICT THEN MARKETS_DICT[bolsa] ELSE bolsa

WithTicker(prods) ==
    Seq_([i \in 1..Len(prods) |->
            [Producto |-> prods[i].Producto, ISIN |-> prods[i].ISIN,
             Bolsa |-> prods[i].Bolsa, Centro |-> prods[i].Centro,
             Simbolo |-> prods[i].Simbolo,
             ticker_yfinance |-> prods[i].Simbolo \o "." \o ReplaceMarket(prods[i].Bolsa)]])

\* lines 280-281: the column of a product is renamed to its ticker; a
\* product the table lacks keeps its name (of two rows of one product the
\* last one counts, as in to_dict())
RenameColumn(prods, p) ==
    LET hits == {i \in 1..Len(prods) : prods[i].Producto = p}
    IN  IF hits = {} THEN p
        ELSE prods[CHOOSE i \in hits : \A j \in hits : j <= i].ticker_yfinance

Renamed(prods, qty) ==
    LET keys == {RenameColumn(prods, p) : p \in DOMAIN qty}
    IN  Fcn_([k \in keys |-> qty[CHOOSE p \in DOMAIN qty : RenameColumn(prods, p) = k]])

TickerList(prods) == {prods[i].ticker_yfinance : i \in 1..Len(prods)}

\* What a provider holds for a ticker: nothing, the days from the second
\* on, or every day.  The secondary provider can also fail the request.
Tickers == {"IWDA.AS", "IBE.MCE"}
Coverage == {"none", "late", "full"}
CoveredDays(kind) ==
    IF kind = "none" THEN {} ELSE IF kind = "late" THEN Days \ {1} ELSE Days

\* The providers' prices.  Only their presence matters to the fallback; the
\* two providers quote different prices so that the source of a cell shows.
PrimaryClose(t, d) == 1
SecondaryClose(t, d) == 2

\* a ticker the provider does not know has no data
PrimaryCoverage(t) == IF t \in DOMAIN market.primary THEN market.primary[t] ELSE "none"

\* lines 286-291: the primary provider's adjusted close of each ticker,
\* left-joined on the calendar and forward-filled
PrimaryAdjClose(tickers, date_idx) ==
    Fcn_([t \in tickers |->
            FfillDays(Fcn_([d \in date_idx |->
                IF d \in CoveredDays(PrimaryCoverage(t))
                THEN Num(PrimaryClose(t, d)) ELSE NaN]))])

\* line 294: df_wide["Adj Close"].isna().any()
TicketsMissing(adj) == {t \in DOMAIN adj : \E d \in DOMAIN adj[t] : IsNa(adj[t][d])}

\* lines 298-303: the secondary provider's closing prices over the range
AltData(t, date_idx) ==
    Fcn_([d \in CoveredDays(market.secondary) \cap date_idx |-> Num(SecondaryClose(t, d))])

\* lines 305-306: fillna(alt_data["close"]) fills the missing cells from
\* the cells of the same day
KeepMissing(series, alt) == series

FillnaFrom(series, alt) ==
    Fcn_([d \in DOMAIN series |->
            IF IsNa(series[d]) /\ d \in DOMAIN alt THEN alt[d] ELSE series[d]])

\* lines 295-309: the fallback, ticker by ticker
WithFallback(adj, date_idx) ==
    Fcn_([t \in DOMAIN adj |->
            IF t \in TicketsMissing(adj)
            THEN FfillDays(FillnaFrom(adj[t], AltData(t, date_idx)))
            ELSE adj[t]])

\* lines 313-314: Cantidad x Adj Close, column by column
PositionValue(cantidad, adj) ==
    Fcn_([k \in DOMAIN cantidad |->
            Fcn_([d \in DOMAIN cantidad[k] |->
                IF k \in DOMAIN adj THEN MulCell(cantidad[k][d], adj[k][d]) ELSE NaN])])

\* lines 317-319: the cash balance of the last row of each date, carried
\* over the calendar
CashByDay(df, date_idx) ==
    LET days == {df[i].Fecha.day : i \in 1..Len(df)}
        Last(d) == CHOOSE i \in 1..Len(df) :
                      /\ df[i].Fecha.day = d
                      /\ \A j \in 1..Len(df) : df[j].Fecha.day = d => j <= i
        last == Fcn_([d \in days |-> df[Last(d)].Efectivo])
    IN  FfillDays(ReindexDays(last, date_idx))

\* df_wide as it stands at line 319
WideTable(df, prods, date_idx) ==
    LET cantidad == Renamed(prods, Quantity(TradesOf(df), date_idx))
        adj      == WithFallback(PrimaryAdjClose(TickerList(prods), date_idx), date_idx)
        valor    == PositionValue(cantidad, adj)
    IN  [Cantidad |-> cantidad,
         AdjClose |-> adj,
         Valor |-> Fcn_([k \in DOMAIN valor \cup {"Efectivo"} |->
                      IF k = "Efectivo" THEN CashByDay(df, date_idx) ELSE valor[k]])]

\* lines 325-327: one row per (Fecha, Producto, Metrica)
LongTable(wide) ==
    LET cols == UNION {{<<m, k>> : k \in DOMAIN wide[m]} : m \in DOMAIN wide}
    IN  UNION {{[Fecha |-> d, Producto |-> c[2], Metrica |-> c[1],
                 value |-> wide[c[1]][c[2]][d]] : d \in DOMAIN wide[c[1]][c[2]]} :
               c \in cols}

\* line 331: one row per (Fecha, Producto), the metrics as columns
MixedTable(wide, date_idx) ==
    LET keys == UNION {DOMAIN wide[m] : m \in DOMAIN wide}
    IN  [row \in date_idx \X keys |->
            [m \in DOMAIN wide |->
                IF row[2] \in DOMAIN wide[m] THEN wide[m][row[2]][row[1]] ELSE NaN]]

\* lines 321-334: the dispatch on format_out
IsFormatAny(format_out) == TRUE
IsFormat(format_out) == format_out \in Formats

\* line 334
InvalidFormat(format_out) ==
    "ValueError: " \o format_out \o " is not a valid format ('wide', 'long' or 'mixed')."

Shaped(wide, format_out, date_idx) ==
    IF format_out = "wide" THEN wide
    ELSE IF format_out = "long" THEN LongTable(wide)
    ELSE MixedTable(wide, date_idx)

(***************************************************************************)
(* Performance Calculator.                                                 *)
(***************************************************************************)
IsMovement(r) == r.Tipo \in {"Ingreso", "Retirada"}

RECURSIVE SumValor(_, _, _, _)
SumValor(df, tipo, d, i) ==
    IF i = 0 THEN 0
    ELSE SumValor(df, tipo, d, i - 1)
         + (IF df[i].Tipo = tipo /\ df[i].Fecha.day = d THEN Skip(df[i].Valor) ELSE 0)

\* lines 343-349: per date with a deposit or a withdrawal, the deposits
\* less the withdrawals
MovimientosAdded(df) ==
    LET days == {df[i].Fecha.day : i \in {j \in 1..Len(df) : IsMovement(df[j])}}
    IN  [d \in days |->
            Num(SumValor(df, "Ingreso", d, Len(df)) + SumValor(df, "Retirada", d, Len(df)))]

Movimientos(df) ==
    LET days == {df[i].Fecha.day : i \in {j \in 1..Len(df) : IsMovement(df[j])}}
    IN  [d \in days |->
            Num(SumValor(df, "Ingreso", d, Len(df)) - SumValor(df, "Retirada", d, Len(df)))]

\* line 351: df_pos["Valor"].sum(axis=1)
RECURSIVE SumColumns(_, _, _)
SumColumns(valor, keys, d) ==
    IF keys = {} THEN 0
    ELSE LET k == CHOOSE x \in keys : TRUE
         IN  Skip(valor[k][d]) + SumColumns(valor, keys \ {k}, d)

ValorAct(valor, date_idx) ==
    Fcn_([d \in date_idx |-> Num(SumColumns(valor, DOMAIN valor, d))])

\* line 352: .shift()
Shift(s) == Fcn_([d \in DOMAIN s |-> IF (d - 1) \in DOMAIN s THEN s[d - 1] ELSE NaN])

FillnaDays(s, v) == Fcn_([d \in DOMAIN s |-> IF IsNa(s[d]) THEN v ELSE s[d]])

\* lines 358-360: (act - (ant + mov)) / (ant + mov) + 1 in floating point:
\* 0/0 is NaN, x/0 is infinite, and n/m + 1 is written <<"ratio", n + m, m>>
RorDaily(act, ant, mov) ==
    LET den == ant + mov
        num == act - den
    IN  IF den = 0
        THEN IF num = 0 THEN <<"nan">>
             ELSE IF num > 0 THEN <<"inf">> ELSE <<"-inf">>
        ELSE <<"ratio", num + den, den>>

IsExactlyOne(ror) == ror[1] = "ratio" /\ ror[2] = ror[3]

\* lines 357-362: the three series side by side, missing cells 0
PerformanceTable(df, wide, date_idx, mov) ==
    LET act == FillnaDays(ValorAct(wide.Valor, date_idx), Num(0))
        ant == FillnaDays(Shift(ValorAct(wide.Valor, date_idx)), Num(0))
        m   == FillnaDays(ReindexDays(mov, date_idx), Num(0))
    IN  [d \in date_idx |->
            [valor_act |-> act[d], valor_ant |-> ant[d], movimientos |-> m[d],
             ROR_daily |-> RorDaily(Val(act[d]), Val(ant[d]), Val(m[d]))]]

(***************************************************************************)
(* The ledgers and markets the model is run on.                            *)
(***************************************************************************)
Runs(text) == IF text = None THEN <<>> ELSE <<[plain_text |-> text]>>

\* the instruments of the ledger; "MCE" is a market MARKETS_DICT lacks
Catalog ==
    [p \in {"A", "B"} |->
        IF p = "A"
        THEN [Producto |-> "A", ISIN |-> "IE00A", Bolsa |-> "EAM",
              Centro |-> "EAM", Simbolo |-> "IWDA"]
        ELSE [Producto |-> "B", ISIN |-> "ES00B", Bolsa |-> "MCE",
              Centro |-> "MCE", Simbolo |-> "IBE"]]

NoProduct == [c \in ProductCols |-> None]

\* one entry["properties"] of the query result
Entry(day, tipo, prod, units, valor, tasa) ==
    [Fecha |-> [day |-> day, time |-> FALSE],
     Tipo |-> tipo,
     Producto |-> Runs(prod["Producto"]), ISIN |-> Runs(prod["ISIN"]),
     Bolsa |-> Runs(prod["Bolsa"]), Centro |-> Runs(prod["Centro"]),
     Simbolo |-> Runs(prod["Simbolo"]), Descripcion |-> <<>>,
     Unidades |-> units, Valor |-> valor, Tasa |-> tasa]

CashEntry(day, tipo, valor) == Entry(day, tipo, NoProduct, NaN, Num(valor), NaN)
TradeEntry(day, tipo, p, units, valor, tasa) ==
    Entry(day, tipo, Catalog[p], Num(units), Num(valor), tasa)

\* rows that vary the amounts: deposits of either sign, a withdrawal, a
\* dividend, and trades of two products with units, prices and fees of
\* either sign
AmountEntries ==
    {CashEntry(d, "Ingreso", v) : d \in Days, v \in {-1, 1}}
    \cup {CashEntry(d, t, 1) : d \in Days, t \in {"Retirada", "Dividendo"}}
    \cup {TradeEntry(d, "Compra", "A", 1, 1, NaN) : d \in Days}
    \cup {TradeEntry(d, "Venta", "A", 1, 2, Num(1)) : d \in Days}
    \cup {TradeEntry(d, "Venta", "B", -1, 1, Num(-1)) : d \in Days}
    \cup {TradeEntry(d, "Compra", "B", -1, 1, NaN) : d \in Days}

\* a cell of n text runs
RunsOfLength(n) == [i \in 1..n |-> [plain_text |-> "t"]]

\* rows that vary the text cells: any rich-text column with 0..MaxRuns
\* runs, and a date with a time part
TextEntries ==
    LET base == {CashEntry(1, "Ingreso", 1), TradeEntry(2, "Compra", "A", 1, 1, NaN)}
    IN  {[e EXCEPT ![c] = RunsOfLength(n)] :
            e \in base, c \in RichTextCols, n \in 0..MaxRuns}
        \cup {[e EXCEPT !.Fecha.time = TRUE] : e \in base}

\* rows for the market-data cases: plain trades and a deposit
MarketEntries ==
    {TradeEntry(d, "Compra", p, 1, 1, NaN) : d \in Days, p \in {"A", "B"}}
    \cup {CashEntry(1, "Ingreso", 1)}

\* rows for the sessions of several calls: purchases of two products, a
\* Sell entered with positive units, and a deposit
SessionEntries ==
    {TradeEntry(1, "Compra", p, 1, 1, NaN) : p \in {"A", "B"}}
    \cup {TradeEntry(d, "Venta", "A", 1, 2, Num(1)) : d \in Days}
    \cup {CashEntry(1, "Ingreso", 1)}

\* rows for the sessions in which the remote ledger is edited: a purchase
\* of either product, and a deposit
ProductEntries ==
    {TradeEntry(1, "Compra", p, 1, 1, NaN) : p \in {"A", "B"}}
    \cup {CashEntry(1, "Ingreso", 1)}

Ledgers(entries) == UNION {[1..n -> entries] : n \in 0..MaxRows}

Markets ==
    [primary : [Tickers -> Coverage], secondary : {"fails", "late", "full"}]

FullMarket == [primary |-> [t \in Tickers |-> "full"], secondary |-> "full"]

(***************************************************************************)
(* The session.                                                            *)
(***************************************************************************)
NoCall == [op |-> "none", sent |-> 0, status |-> 0, exc |-> "", json |-> <<>>]

Start ==
    /\ pc = "new"
    /\ http = NoCall
    /\ products = <<>>
    /\ df_tran = <<>>
    /\ df_pos = <<>>
    /\ df_perf = <<>>
    /\ format_arg = ""
    /\ calls = 0
    /\ err = ""

Init ==
    /\ ledger \in Ledgers(AmountEntries)
    /\ market = FullMarket
    /\ Start

InitText ==
    /\ ledger \in Ledgers(TextEntries)
    /\ market = FullMarket
    /\ Start

InitMarket ==
    /\ ledger \in Ledgers(MarketEntries)
    /\ market \in Markets
    /\ Start

InitSession ==
    /\ ledger \in Ledgers(SessionEntries)
    /\ market = FullMarket
    /\ Start

InitStale ==
    /\ ledger \in Ledgers(ProductEntries)
    /\ market = FullMarket
    /\ Start

InitClient ==
    /\ ledger \in Ledgers(MarketEntries)
    /\ market = FullMarket
    /\ Start

\* a call that raises: the session ends with the exception
Fail(e) == pc' = "failed" /\ err' = e

\* a direct call of the client, as the tests make it
RetrieveDb ==
    /\ pc = "new"
    /\ \E status \in Statuses : http' = retrieve_db(status)
    /\ UNCHANGED <<ledger, market, pc, products, df_tran, df_pos, df_perf, format_arg,
                 calls, err>>

QueryDb ==
    /\ pc = "new"
    /\ \E status \in Statuses : http' = query_db(status)
    /\ UNCHANGED <<ledger, market, pc, products, df_tran, df_pos, df_perf, format_arg,
                 calls, err>>

\* get_transactions_df(): query, parse, sort, derive, stash the products
GetTransactionsDf ==
    /\ pc = "new"
    /\ \E status \in Statuses :
        LET data == query_db(status)
        IN  IF data.exc # ""
            THEN Fail(data.exc) /\ UNCHANGED <<products, df_tran>>
            ELSE LET df == FromRecords(data.json[1].results)
                 IN  IF df.exc # ""
                     THEN Fail(df.exc) /\ UNCHANGED <<products, df_tran>>
                     ELSE IF Len(df.val) = 0
                     THEN Fail("KeyError: Fecha") /\ UNCHANGED <<products, df_tran>>
                     ELSE \E sorted \in SortValuesFecha(WithDatetime(df.val)) :
                             LET full == WithCumulativeColumns(sorted)
                             IN  /\ products' = ProductsOf(full)
                                 /\ df_tran' = full
                                 /\ pc' = "tran"
                                 /\ err' = ""
    /\ UNCHANGED <<ledger, market, http, df_pos, df_perf, format_arg, calls>>

\* the remote database is edited while the caller holds a table
EditLedger ==
    /\ pc = "tran"
    /\ calls = 0
    /\ ledger' \in Ledgers(ProductEntries) \ {ledger}
    /\ UNCHANGED <<market, pc, http, products, df_tran, df_pos, df_perf, format_arg,
                   calls, err>>

\* get_transactions_df() called again on the instance while the caller goes
\* on with the table it already holds: the call stores self.products anew
RefreshTransactionsDf ==
    /\ pc = "tran"
    /\ calls = 0
    /\ \E status \in Statuses :
        LET data == query_db(status)
        IN  IF data.exc # ""
            THEN Fail(data.exc) /\ UNCHANGED products
            ELSE LET df == FromRecords(data.json[1].results)
                 IN  IF df.exc # ""
                     THEN Fail(df.exc) /\ UNCHANGED products
                     ELSE IF Len(df.val) = 0
                     THEN Fail("KeyError: Fecha") /\ UNCHANGED products
                     ELSE \E sorted \in SortValuesFecha(WithDatetime(df.val)) :
                             /\ products' = ProductsOf(WithCumulativeColumns(sorted))
                             /\ UNCHANGED <<pc, err>>
    /\ UNCHANGED <<ledger, market, http, df_tran, df_pos, df_perf, format_arg, calls>>

\* get_his_positions_df(df_tran, format_out): the caller passes the table
\* it holds; the call corrects it in place and reads self.products
get_his_positions_df(format_out) ==
    LET date_idx  == DateRange(df_tran)
        corrected == SignCorrected(df_tran)
        prods     == WithTicker(products)
        primary   == PrimaryAdjClose(TickerList(prods), date_idx)
    IN  /\ format_arg' = format_out
        /\ calls' = calls + 1
        /\ df_tran' = corrected
        /\ IF HasDuplicateEntries(TradesOf(corrected))
           THEN /\ Fail("ValueError: Index contains duplicate entries, cannot reshape")
                /\ UNCHANGED <<products, df_pos>>
           ELSE /\ products' = prods
                /\ IF TickerList(prods) = {}
                   THEN /\ \E e \in {"ValueError: No objects to concatenate",
                                     "KeyError: Adj Close"} : Fail(e)
                        /\ UNCHANGED df_pos
                   ELSE IF TicketsMissing(primary) # {} /\ market.secondary = "fails"
                   THEN Fail("RemoteDataError") /\ UNCHANGED df_pos
                   ELSE IF ~IsFormat(format_out)
                   THEN /\ Fail(InvalidFormat(format_out))
                        /\ UNCHANGED df_pos
                   ELSE /\ df_pos' = [format_out |-> format_out,
                                      date_idx |-> date_idx,
                                      table |-> Shaped(WideTable(corrected, prods, date_idx),
                                                       format_out, date_idx)]
                        /\ pc' = "pos"
                        /\ err' = ""
        /\ UNCHANGED <<ledger, market, http, df_perf>>

\* the first call with the table get_transactions_df returned
GetHisPositionsDf ==
    /\ pc = "tran"
    /\ \E format_out \in Formats \cup {"tall"} : get_his_positions_df(format_out)

\* a further call with the same table, after a call that returned
RepeatHisPositionsDf ==
    /\ pc = "pos"
    /\ calls < MaxCalls
    /\ \E format_out \in Formats \cup {"tall"} : get_his_positions_df(format_out)

\* get_performance_df(df_tran, df_pos), called with the wide table.  With
\* no deposit and no withdrawal in the table the grouped series is empty:
\* pandas then either lacks the "movimientos" column (KeyError) or yields
\* an empty series, depending on its version.
GetPerformanceDf ==
    /\ pc = "pos"
    /\ df_pos.format_out = "wide"
    /\ \/ /\ pc' = "perf"
          /\ df_perf' = PerformanceTable(df_tran, df_pos.table, df_pos.date_idx,
                                         Movimientos(df_tran))
          /\ err' = ""
       \/ /\ DOMAIN Movimientos(df_tran) = {}
          /\ Fail("KeyError: movimientos")
          /\ UNCHANGED df_perf
    /\ UNCHANGED <<ledger, market, http, products, df_tran, df_pos, format_arg, calls>>

\* the computation engine
Next == GetTransactionsDf \/ GetHisPositionsDf \/ GetPerformanceDf

\* the engine when the caller passes its table to the builder again
NextRepeat == Next \/ RepeatHisPositionsDf

\* the engine when the ledger changes and the normalizer is called again
\* between the call that returned the table and the builder
NextStale == Next \/ EditLedger \/ RefreshTransactionsDf

\* the engine together with direct calls of the client
NextClient == RetrieveDb \/ QueryDb \/ Next

Spec == Init /\ [][Next]_vars
SpecText == InitText /\ [][Next]_vars
SpecMarket == InitMarket /\ [][Next]_vars
SpecClient == InitClient /\ [][NextClient]_vars
SpecRepeat == InitSession /\ [][NextRepeat]_vars
SpecStale == InitStale /\ [][NextStale]_vars

(***************************************************************************)
(* Properties of the Remote Ledger Client.                                 *)
(***************************************************************************)
\* C1: retrieve_db and query_db each send exactly one request; for every
\* response status the call returns the response's JSON body when the
\* status is 200 and fails with ConnectionError otherwise, so no other
\* status yields a result; and a ConnectionError met by the engine ends the
\* computation with no table.
C1_ClientContract ==
    /\ http.op # "none" =>
        /\ http.op \in {"retrieve_db", "query_db"}
        /\ http.sent = 1
        /\ http.status = 200 =>
            /\ http.exc = ""
            /\ http.json = <<IF http.op = "retrieve_db"
                             THEN Schema ELSE [results |-> ledger]>>
        /\ http.status # 200 =>
            /\ http.exc = "ConnectionError"
            /\ http.json = <<>>
    /\ err = "ConnectionError" =>
        pc = "failed" /\ df_tran = <<>> /\ products = <<>> /\ df_pos = <<>>

\* a success status other than 200 has been answered with ConnectionError
C1_Witness ==
    /\ http.op = "query_db"
    /\ http.sent = 1
    /\ http.status = 201
    /\ http.exc = "ConnectionError"

C6_CashBalance ==
    \A i \in 1..Len(df_tran) :
        LET r == df_tran[i]
        IN  /\ r.Total = IF IsNa(r.Unidades) \/ IsNa(r.Valor)
                         THEN NaN
                         ELSE Num(AbsInt(Val(r.Unidades) * Val(r.Valor)))
            /\ ~IsNa(r.Efectivo)
            /\ Val(r.Efectivo) =
                  (Val(r.Ingresado) + Val(r.DividendosAcumulados) + Val(r.Vendido))
                - (Val(r.Retirado) + Val(r.Comprado) + Val(r.CostesAcumulados))

\* a row on which purchases, sales and fees all weigh on the balance
C6_Witness ==
    /\ pc = "tran"
    /\ \E i \in 1..Len(df_tran) :
        /\ Val(df_tran[i].Comprado) > 0
        /\ Val(df_tran[i].Vendido) > 0
        /\ Val(df_tran[i].CostesAcumulados) > 0
        /\ Val(df_tran[i].Efectivo) = Val(df_tran[i].Vendido)
              - Val(df_tran[i].Comprado) - Val(df_tran[i].CostesAcumulados)

\* C10: every date of the "Fecha" column of the table get_transactions_df
\* returns carries the UTC timezone.
C10_FechaIsUTC ==
    \A i \in 1..Len(df_tran) : df_tran[i].Fecha.tz = "UTC"

(***************************************************************************)
(* Properties of the Position Builder.                                     *)
(***************************************************************************)
\* C3 as stated: a call of get_his_positions_df with a format_out outside
\* {"wide", "long", "mixed"} always fails with the ValueError naming the
\* format, and a call with a format_out inside the set never does.
C3_AlwaysInvalidInput ==
    /\ (format_arg # "" /\ format_arg \notin {"wide", "long", "mixed"})
        => pc = "failed" /\ err = InvalidFormat(format_arg)
    /\ format_arg \in {"wide", "long", "mixed"} => err # InvalidFormat(format_arg)

\* C3, amended: a call with a format_out outside {"wide", "long", "mixed"}
\* never returns a table; it fails with the ValueError naming the format
\* exactly when the steps before the dispatch complete, that is when no two
\* Buy/Sell rows share a date and a product, the Product table is not
\* empty and the price requests succeed, and with the error of the earlier
\* step otherwise.  A format_out inside the set never fails with that error.
C3_InvalidInputAfterEarlierSteps ==
    /\ (format_arg # "" /\ format_arg \notin {"wide", "long", "mixed"}) =>
        LET n == Len(df_tran)
            duplicate ==
                \E i, j \in 1..n :
                    /\ i # j
                    /\ df_tran[i].Tipo \in {"Compra", "Venta"}
                    /\ df_tran[j].Tipo \in {"Compra", "Venta"}
                    /\ df_tran[i].Fecha.day = df_tran[j].Fecha.day
                    /\ df_tran[i].Producto = df_tran[j].Producto
            range == {d \in Days : \E i \in 1..n : df_tran[i].Fecha.day <= d}
            gaps ==
                \E i \in 1..Len(products) : \E d \in range :
                    d \notin CoveredDays(PrimaryCoverage(products[i].ticker_yfinance))
        IN  /\ pc = "failed"
            /\ df_pos = <<>>
            /\ err # ""
            /\ err = InvalidFormat(format_arg)
                <=> (/\ ~duplicate
                     /\ products # <<>>
                     /\ ~(gaps /\ market.secondary = "fails"))
    /\ format_arg \in {"wide", "long", "mixed"} => err # InvalidFormat(format_arg)

\* an unsupported format has been rejected by name
C3_Witness ==
    /\ format_arg = "tall"
    /\ pc = "failed"
    /\ err = "ValueError: tall is not a valid format ('wide', 'long' or 'mixed')."
    /\ Len(df_tran) > 0

C9_FallbackCoverage ==
    (df_pos # <<>> /\ df_pos.format_out = "wide" /\ market.secondary = "full") =>
        LET adj == df_pos.table.AdjClose
            calendar == {d \in Days : \E i \in 1..Len(df_tran) : df_tran[i].Fecha.day <= d}
        IN  \A t \in DOMAIN adj :
                (t \in Tickers /\ market.primary[t] = "none") =>
                    /\ DOMAIN adj[t] = calendar
                    /\ \A d \in calendar : ~IsNa(adj[t][d])

\* a ticker the primary provider lacks, priced on every day by the
\* secondary provider, beside a ticker the primary provider prices
C9_Witness ==
    /\ df_pos # <<>>
    /\ df_pos.format_out = "wide"
    /\ market.secondary = "full"
    /\ market.primary["IWDA.AS"] = "none"
    /\ "IWDA.AS" \in DOMAIN df_pos.table.AdjClose
    /\ DOMAIN df_pos.table.AdjClose["IWDA.AS"] = Days
    /\ \A d \in Days : df_pos.table.AdjClose["IWDA.AS"][d] = Num(SecondaryClose("IWDA.AS", d))

(***************************************************************************)
(* Properties of the Performance Calculator.                               *)
(***************************************************************************)
\* C8: on every day of the performance series whose net external cash flow
\* is zero and whose total value equals the prior day's, ROR_daily is
\* exactly 1.0, days of zero value and the first day included.
C8_UnitGrowthFactor ==
    pc = "perf" =>
        \A d \in DOMAIN df_perf :
            (/\ df_perf[d].movimientos = Num(0)
             /\ df_perf[d].valor_act = df_perf[d].valor_ant)
                => IsExactlyOne(df_perf[d].ROR_daily)

(***************************************************************************)
(* Properties of sessions of several calls.                                *)
(***************************************************************************)
\* C11 as stated: a second call of get_his_positions_df with the same table
\* reference (and the same format_out) does not both leave the table as
\* the first call left it and return the result the first call returned.
C11_RepeatNotIdempotent ==
    [][(pc = "pos" /\ calls' = calls + 1 /\ format_arg' = format_arg) =>
        ~(df_tran' = df_tran /\ pc' = "pos" /\ df_pos' = df_pos)]_vars

\* C11, amended: get_his_positions_df corrects the Sell signs in place, so
\* the first call changes the caller's table exactly when it holds a Sell
\* with positive units; the correction is idempotent, so a second call
\* with the same reference leaves the table and the Product table as the
\* first call left them and, with the same format_out, returns the same
\* result.
C11_RepeatIdempotent ==
    [][calls' = calls + 1 =>
        /\ pc = "tran" =>
            (df_tran' # df_tran
                <=> \E i \in 1..Len(df_tran) :
                        /\ df_tran[i].Tipo = "Venta"
                        /\ ~IsNa(df_tran[i].Unidades)
                        /\ Val(df_tran[i].Unidades) > 0)
        /\ pc = "pos" =>
            /\ df_tran' = df_tran
            /\ products' = products
            /\ format_arg' = format_arg =>
                pc' = "pos" /\ df_pos' = df_pos /\ err' = err]_vars

\* two calls have returned, with a table whose Sell was entered with
\* positive units
C11_Witness ==
    /\ calls = 2
    /\ pc = "pos"
    /\ \E i \in 1..Len(df_tran) :
        /\ df_tran[i].Tipo = "Venta"
        /\ ledger[df_tran[i].idx].Unidades = Num(1)
        /\ df_tran[i].Unidades = Num(-1)

\* C12: the Product table is computed by each get_transactions_df call from
\* the table it builds, and the Product table a get_his_positions_df(T)
\* call uses to map products to tickers is the one derived during the
\* get_transactions_df call that returned T.
C12_ProductsOfTheTable ==
    [][/\ (pc = "new" /\ pc' = "tran") => products' = ProductsOf(df_tran')
       /\ calls' = calls + 1 =>
            {ProductRow(products[i]) : i \in 1..Len(products)}
                = {ProductsOf(df_tran)[i] : i \in 1..Len(ProductsOf(df_tran))}]_vars

(***************************************************************************)
(* Further properties of the Position Builder.                             *)
(***************************************************************************)
\* C13: the builder asks the secondary provider for a ticker if and only
\* if the primary provider gave no adjusted close for it on any day of the
\* series; a ticker with at least one primary value never triggers the
\* fallback, so its cells never come from the secondary provider and a
\* failing secondary provider cannot make the call fail on its account.
C13_FallbackIffAllAbsent ==
    (/\ calls > 0
     /\ products # <<>>
     /\ err # "ValueError: Index contains duplicate entries, cannot reshape") =>
        LET range == {d \in Days : \E i \in 1..Len(df_tran) : df_tran[i].Fecha.day <= d}
            tickers == {products[i].ticker_yfinance : i \in 1..Len(products)}
            allAbsent ==
                {t \in tickers : \A d \in range : d \notin CoveredDays(PrimaryCoverage(t))}
            requested == TicketsMissing(PrimaryAdjClose(tickers, range))
        IN  /\ requested = allAbsent
            /\ err = "RemoteDataError" => allAbsent # {}
            /\ (df_pos # <<>> /\ df_pos.format_out = "wide") =>
                \A t \in tickers \ allAbsent : \A d \in range :
                    df_pos.table.AdjClose[t][d] # Num(SecondaryClose(t, d))

\* C14: for every product and every calendar day from the product's first
\* trade to today, the quantity the builder returns is the sum of the
\* sign-corrected units of all of that product's Buy and Sell rows dated on
\* or before that day, several trades of one product on one date
\* included; rows of another type change no quantity.
C14_QuantityIsSumOfUnits ==
    (/\ calls > 0
     /\ format_arg = "wide"
     /\ \E i \in 1..Len(df_tran) : df_tran[i].Tipo \in {"Compra", "Venta"}) =>
        LET n == Len(df_tran)
            Column(p) == IF p = "A" THEN "IWDA.AS" ELSE "IBE.MCE"
            IsTradeOf(i, p) ==
                df_tran[i].Tipo \in {"Compra", "Venta"} /\ df_tran[i].Producto = p
            Signed(i) ==
                IF df_tran[i].Tipo = "Venta" /\ Val(df_tran[i].Unidades) > 0
                THEN -Val(df_tran[i].Unidades)
                ELSE Val(df_tran[i].Unidades)
            UnitsTo(p, d) ==
                LET S[i \in 0..n] ==
                        IF i = 0 THEN 0
                        ELSE S[i - 1]
                             + (IF IsTradeOf(i, p) /\ df_tran[i].Fecha.day <= d
                                THEN Signed(i) ELSE 0)
                IN  S[n]
        IN  /\ df_pos # <<>>
            /\ \A i \in 1..n : \A d \in Days :
                (IsTradeOf(i, df_tran[i].Producto) /\ df_tran[i].Fecha.day <= d) =>
                    df_pos.table.Cantidad[Column(df_tran[i].Producto)][d]
                        = Num(UnitsTo(df_tran[i].Producto, d))

C16_ErrorLeavesStateChanged ==
    [][(calls' = calls + 1 /\ err' = InvalidFormat(format_arg')) =>
        /\ \A i \in 1..Len(df_tran') :
            df_tran'[i].Tipo = "Venta" => Val(df_tran'[i].Unidades) <= 0
        /\ \A i \in 1..Len(products') : "ticker_yfinance" \in DOMAIN products'[i]
        /\ <<df_tran', products'>> # <<df_tran, products>>]_vars

\* C16, amended: get_his_positions_df reads format_out only after the sign
\* correction, the ticker derivation and the price requests; when a call
\* ends in the unsupported-format error the pivot and the requests have
\* succeeded, the caller's table has its positive Sell units negated and
\* the Product table has its ticker column.  On the first call with a
\* table get_transactions_df returned this differs from the state before
\* the call; on a further call with the same table the earlier call has
\* made these changes already and the failing call adds none.
C16_ErrorAfterMutation ==
    [][(calls' = calls + 1 /\ err' = InvalidFormat(format_arg')) =>
        /\ pc' = "failed"
        /\ format_arg' \notin {"wide", "long", "mixed"}
        /\ ~\E i, j \in 1..Len(df_tran) :
                /\ i # j
                /\ df_tran[i].Tipo \in {"Compra", "Venta"}
                /\ df_tran[j].Tipo \in {"Compra", "Venta"}
                /\ df_tran[i].Fecha.day = df_tran[j].Fecha.day
                /\ df_tran[i].Producto = df_tran[j].Producto
        /\ Len(df_tran') = Len(df_tran)
        /\ \A i \in 1..Len(df_tran) :
            df_tran'[i] =
                IF df_tran[i].Tipo = "Venta" /\ ~IsNa(df_tran[i].Unidades)
                                            /\ Val(df_tran[i].Unidades) > 0
                THEN [df_tran[i] EXCEPT !.Unidades = Num(-Val(df_tran[i].Unidades))]
                ELSE df_tran[i]
        /\ products' # <<>>
        /\ Len(products') = Len(products)
        /\ \A i \in 1..Len(products') :
            /\ "ticker_yfinance" \in DOMAIN products'[i]
            /\ products'[i].ticker_yfinance \in {"IWDA.AS", "IBE.MCE"}
            /\ \A c \in ProductCols : products'[i][c] = products[i][c]
        /\ pc = "tran" => products' # products
        /\ pc = "pos" => (df_tran' = df_tran /\ products' = products)]_vars

\* a call has ended in the unsupported-format error and left the Sell
\* entered with positive units negated and the tickers derived
C16_Witness ==
    /\ calls = 1
    /\ pc = "failed"
    /\ err = "ValueError: tall is not a valid format ('wide', 'long' or 'mixed')."
    /\ products # <<>>
    /\ products[1].ticker_yfinance = "IWDA.AS"
    /\ \E i \in 1..Len(df_tran) :
        /\ df_tran[i].Tipo = "Venta"
        /\ ledger[df_tran[i].idx].Unidades = Num(1)
        /\ df_tran[i].Unidades = Num(-1)

====
